---- MODULE Spec2Model ----
(***************************************************************************)
(* Model of the Oura MCP server: the tool dispatcher of server.py          *)
(* (get_client, format_sleep_summary, handle_call_tool) and the vendor     *)
(* accessor of src/oura_mcp/oura_client.py (OuraClient).                   *)
(*                                                                         *)
(* Representation choices                                                  *)
(*  - A Python str built by an f-string or by join is a sequence of        *)
(*    pieces (each piece a TLA+ string); concatenation is \o.  A text      *)
(*    "contains" a literal or an interpolated value when that piece        *)
(*    occurs in the sequence.                                              *)
(*  - A JSON value is a record [t, n, s]: t is "num", "str" or "null".     *)
(*    Durations, steps, calories and scores are integers; a temperature    *)
(*    deviation is held in hundredths of a degree.                         *)
(*  - Python None for the token and the global client is a record with     *)
(*    none = TRUE.                                                         *)
(*  - A Python call either returns a value or raises: Ret(v) / Raise(c,m). *)
(***************************************************************************)
EXTENDS Integers, Sequences, FiniteSets, TLC

VARIABLES
    oura_client,   \* server.py global: the accessor singleton or None
    os_environ,    \* value of OURA_API_TOKEN in the process environment
    dotenv_file,   \* value of OURA_API_TOKEN in the .env file
    constructions, \* number of OuraClient instances ever constructed
    last,          \* observation of the most recent handle_call_tool invocation
    earlier        \* what an earlier invocation identical to `last` returned

vars == <<oura_client, os_environ, dotenv_file, constructions, last, earlier>>

\* ------------------------------------------------------------------ bounds
MaxRecords == 2

\* ------------------------------------------------------------ Python values
NoneTok == [none |-> TRUE, s |-> ""]
Tok(s)  == [none |-> FALSE, s |-> s]
TokenValues == {NoneTok, Tok(""), Tok("tokA")}

\* truthiness of an Optional[str]
Truthy(t) == ~t.none /\ t.s # ""

NoClient == [none |-> TRUE, id |-> 0, api_token |-> "", headers |-> <<>>]

Ret(v)      == [raised |-> FALSE, cls |-> "", msg |-> <<>>, val |-> v]
Raise(c, m) == [raised |-> TRUE, cls |-> c, msg |-> m, val |-> <<>>]

JNum(n) == [t |-> "num", n |-> n, s |-> ""]
JStr(s) == [t |-> "str", n |-> 0, s |-> s]
JNull   == [t |-> "null", n |-> 0, s |-> ""]

\* str(v) / f"{v}" of a JSON value
Str(v) == CASE v.t = "num" -> ToString(v.n)
            [] v.t = "str" -> v.s
            [] OTHER       -> "None"

\* dict.get(key, default)
Get(d, key, default) == IF key \in DOMAIN d THEN d[key] ELSE default

\* "sep".join(list of texts)
RECURSIVE Join(_, _)
Join(sep, texts) ==
    IF texts = <<>> THEN <<>>
    ELSE IF Len(texts) = 1 THEN texts[1]
    ELSE texts[1] \o sep \o Join(sep, Tail(texts))

Contains(text, piece) == \E i \in 1..Len(text) : text[i] = piece

\* F applied to the value of e, with e evaluated once: a local assignment
Let(e, F(_)) == CHOOSE r \in {F(v) : v \in {e}} : TRUE

\* ---------------------------------------------------------- vendor outcomes
\* What one requests.get produces: a transport failure (RequestException with
\* a cause) or an HTTP response (status, body text, and what json() gives).
\* body.kind: "invalid" (not JSON), "array" (JSON, not an object), "object".
\* decode_wrapped: whether the installed requests raises its own
\* JSONDecodeError (a RequestException) or the json module's ValueError.
Body(kind, has_data, data_null, data, wrapped) ==
    [kind |-> kind, has_data |-> has_data, data_null |-> data_null,
     data |-> data, decode_wrapped |-> wrapped]

EmptyBody == Body("object", FALSE, FALSE, <<>>, FALSE)

Transport(cause) ==
    [transport |-> TRUE, cause |-> cause, status |-> 0, text |-> "", body |-> EmptyBody]
Http(status, text, body) ==
    [transport |-> FALSE, cause |-> "", status |-> status, text |-> text, body |-> body]

SleepFull ==
    [k \in {"day", "total_sleep_duration", "rem_sleep_duration",
            "deep_sleep_duration", "light_sleep_duration", "sleep_efficiency"} |->
        CASE k = "day"                  -> JStr("2024-01-02")
          [] k = "total_sleep_duration" -> JNum(28800)
          [] k = "rem_sleep_duration"   -> JNum(7200)
          [] k = "deep_sleep_duration"  -> JNum(5400)
          [] k = "light_sleep_duration" -> JNum(14400)
          [] OTHER                      -> JNum(92)]

ActivityFull ==
    [k \in {"day", "steps", "active_calories", "total_calories"} |->
        CASE k = "day"             -> JStr("2024-01-02")
          [] k = "steps"           -> JNum(12345)
          [] k = "active_calories" -> JNum(400)
          [] OTHER                 -> JNum(2200)]

ReadinessFull ==
    [k \in {"day", "score", "temperature_deviation"} |->
        CASE k = "day"   -> JStr("2024-01-02")
          [] k = "score" -> JNum(85)
          [] OTHER       -> JNum(-25)]      \* -0.25 degrees, in hundredths

Restrict(f, S) == [k \in (DOMAIN f) \cap S |-> f[k]]
NullAt(f, key) == [k \in DOMAIN f |-> IF k = key THEN JNull ELSE f[k]]

\* Sample records of an endpoint: complete, every field absent, and one with
\* a JSON null where a number is expected.
Records(endpoint) ==
    LET full == CASE endpoint = "sleep"          -> SleepFull
                  [] endpoint = "daily_activity" -> ActivityFull
                  [] OTHER                       -> ReadinessFull
        bad  == CASE endpoint = "sleep"          -> "deep_sleep_duration"
                  [] endpoint = "daily_activity" -> "steps"
                  [] OTHER                       -> "temperature_deviation"
    IN  {full, Restrict(full, {}), NullAt(full, bad)}

RecordLists(endpoint) ==
    UNION {[1..n -> Records(endpoint)] : n \in 0..MaxRecords}

TransportCauses == {"timed out", "connection refused"}
ErrorStatuses   == {401, 404, 429, 500}
EmptyStatuses   == {204, 304}

Outcomes(endpoint) ==
    {Transport(c) : c \in TransportCauses}
    \cup {Http(st, "err-body", EmptyBody) : st \in ErrorStatuses}
    \cup {Http(st, "", Body("invalid", FALSE, FALSE, <<>>, w)) :
              st \in EmptyStatuses, w \in BOOLEAN}
    \cup {Http(200, "[]", Body("array", FALSE, FALSE, <<>>, FALSE)),
          Http(200, "{}", EmptyBody),
          Http(200, "{data:null}", Body("object", TRUE, TRUE, <<>>, FALSE))}
    \cup (IF endpoint = "personal_info" THEN {}
          ELSE {Http(200, "{data:[..]}", Body("object", TRUE, FALSE, d, FALSE)) :
                    d \in RecordLists(endpoint)})

\* Response.raise_for_status(): HTTPError for 400 <= status < 600
RaisesForStatus(o) == o.status >= 400 /\ o.status < 600

\* --------------------------------------------------------------- OuraClient
TokenNotFound ==
    <<"Oura API token not found. Please set OURA_API_TOKEN in your .env file ",
      "or pass it directly to OuraClient.">>

\* load_dotenv(): a key of .env is exported unless the environment has it
load_dotenv(environ, dotenv) ==
    IF environ.none /\ ~dotenv.none THEN dotenv ELSE environ

\* variant of OuraClient_init: the token is not checked at construction
OuraClient_init_unchecked(api_token, environ, id) ==
    LET tok == IF Truthy(api_token) THEN api_token ELSE environ
    IN  Ret([none |-> FALSE, id |-> id, api_token |-> tok.s,
             headers |-> <<"Bearer ", tok.s>>])

\* OuraClient.__init__(api_token): Ret(instance) or Raise(ValueError)
OuraClient_init(api_token, environ, id) ==
    LET tok == IF Truthy(api_token) THEN api_token ELSE environ
    IN  IF ~Truthy(tok)
        THEN Raise("ValueError", TokenNotFound)
        ELSE Ret([none |-> FALSE, id |-> id, api_token |-> tok.s,
                  headers |-> <<"Bearer ", tok.s>>])

BASE_URL == "https://api.ouraring.com/v2/usercollection"

Request(url, headers, params) == [url |-> url, headers |-> headers, params |-> params]
NoParams == [start_date |-> "", end_date |-> ""]

\* Every accessor call yields [res |-> Ret/Raise, requests |-> requests sent]

\* variant of make_request: a 429 is retried once before it is reported
make_request_retry(self, endpoint, params, o) ==
    LET sent == <<Request(<<BASE_URL, "/", endpoint>>, self.headers, params)>>
        res  ==
          IF o.transport
          THEN Raise("ValueError", <<"Network error: ", o.cause>>)
          ELSE IF RaisesForStatus(o)
          THEN IF o.status = 401
               THEN Raise("ValueError",
                          <<"Authentication failed. Please check your Oura API token.">>)
               ELSE IF o.status = 429
               THEN Raise("ValueError", <<"Rate limit exceeded. Please try again later.">>)
               ELSE Raise("ValueError",
                          <<"API request failed: ", ToString(o.status), " - ", o.text>>)
          ELSE IF o.body.kind = "invalid"
          THEN IF o.body.decode_wrapped
               THEN Raise("ValueError", <<"Network error: ", "Expecting value">>)
               ELSE Raise("ValueError", <<"Expecting value">>)
          ELSE Ret(o.body)
    IN  [res |-> res,
         requests |-> IF ~o.transport /\ o.status = 429 THEN sent \o sent ELSE sent]

\* variant of make_request: the RequestException clause comes first, so it
\* also takes the HTTPError of raise_for_status
make_request_broad(self, endpoint, params, o) ==
    LET sent == <<Request(<<BASE_URL, "/", endpoint>>, self.headers, params)>>
        res  ==
          IF o.transport
          THEN Raise("ValueError", <<"Network error: ", o.cause>>)
          ELSE IF RaisesForStatus(o)
          THEN Raise("ValueError", <<"Network error: ", ToString(o.status)>>)
          ELSE IF o.body.kind = "invalid"
          THEN IF o.body.decode_wrapped
               THEN Raise("ValueError", <<"Network error: ", "Expecting value">>)
               ELSE Raise("ValueError", <<"Expecting value">>)
          ELSE Ret(o.body)
    IN  [res |-> res, requests |-> sent]

\* OuraClient._make_request(endpoint, params) against vendor outcome o
make_request(self, endpoint, params, o) ==
    LET sent == <<Request(<<BASE_URL, "/", endpoint>>, self.headers, params)>>
        res  ==
          IF o.transport
          THEN Raise("ValueError", <<"Network error: ", o.cause>>)
          ELSE IF RaisesForStatus(o)
          THEN IF o.status = 401
               THEN Raise("ValueError",
                          <<"Authentication failed. Please check your Oura API token.">>)
               ELSE IF o.status = 429
               THEN Raise("ValueError", <<"Rate limit exceeded. Please try again later.">>)
               ELSE Raise("ValueError",
                          <<"API request failed: ", ToString(o.status), " - ", o.text>>)
          ELSE IF o.body.kind = "invalid"
          THEN IF o.body.decode_wrapped
               THEN Raise("ValueError", <<"Network error: ", "Expecting value">>)
               ELSE Raise("ValueError", <<"Expecting value">>)
          ELSE Ret(o.body)
    IN  [res |-> res, requests |-> sent]

\* variant of test_connection: only the HTTPError of raise_for_status is caught
test_connection_narrow(self, o) ==
    LET sent == <<Request(<<BASE_URL, "/", "personal_info">>, self.headers, NoParams)>>
    IN  [res |-> IF o.transport THEN Raise("RequestException", <<o.cause>>)
                 ELSE Ret(~RaisesForStatus(o)),
         requests |-> sent]

\* OuraClient.test_connection() against vendor outcome o: requests.get and
\* raise_for_status inside try / except Exception
test_connection(self, o) ==
    LET sent  == <<Request(<<BASE_URL, "/", "personal_info">>, self.headers, NoParams)>>
        tried == IF o.transport THEN Raise("RequestException", <<o.cause>>)
                 ELSE IF RaisesForStatus(o)
                 THEN Raise("HTTPError", <<ToString(o.status)>>)
                 ELSE Ret(TRUE)
    IN  [res |-> IF tried.raised THEN Ret(FALSE) ELSE tried, requests |-> sent]

\* variant of fetch: response["data"], which raises KeyError without the key
fetch_subscript(self, endpoint, start_date, end_date, o) ==
    Let(make_request(self, endpoint,
                     [start_date |-> start_date, end_date |-> end_date], o),
        LAMBDA r :
          IF r.res.raised THEN r
          ELSE IF r.res.val.kind = "array"
          THEN [res |-> Raise("TypeError", <<"list indices must be integers">>),
                requests |-> r.requests]
          ELSE IF ~r.res.val.has_data
          THEN [res |-> Raise("KeyError", <<"'data'">>), requests |-> r.requests]
          ELSE [res |-> Ret([is_none |-> r.res.val.data_null,
                             list |-> r.res.val.data]),
                requests |-> r.requests])

\* response.get("data", []) of get_sleep_data / get_activity_data /
\* get_readiness_data; a JSON array has no .get
fetch(self, endpoint, start_date, end_date, o) ==
    Let(make_request(self, endpoint,
                     [start_date |-> start_date, end_date |-> end_date], o),
        LAMBDA r :
          IF r.res.raised THEN r
          ELSE IF r.res.val.kind = "array"
          THEN [res |-> Raise("AttributeError",
                              <<"'list' object has no attribute 'get'">>),
                requests |-> r.requests]
          ELSE [res |-> Ret([is_none |-> r.res.val.has_data /\ r.res.val.data_null,
                             list |-> r.res.val.data]),
                requests |-> r.requests])

get_sleep_data(self, start_date, end_date, o) ==
    fetch(self, "sleep", start_date, end_date, o)
get_activity_data(self, start_date, end_date, o) ==
    fetch(self, "daily_activity", start_date, end_date, o)
get_readiness_data(self, start_date, end_date, o) ==
    fetch(self, "daily_readiness", start_date, end_date, o)

\* --------------------------------------------------------------- formatting
DivTypeError   == <<"unsupported operand type(s) for /: 'NoneType' and 'int'">>
FmtNoneError   == <<"unsupported format string passed to NoneType.__format__">>
FmtCommaError  == <<"Cannot specify ',' with 's'.">>
FmtFloatError  == <<"Unknown format code 'f' for object of type 'str'">>

\* f"{x / 3600:.1f}" for x seconds: tenths of an hour, rounded to nearest
\* (the sampled durations are not at a rounding tie)
Hours1f(v) ==
    IF v.t # "num" THEN Raise("TypeError", DivTypeError)
    ELSE LET q == (v.n * 10 + 1800) \div 3600
         IN  Ret(<<ToString(q \div 10), ".", ToString(q % 10)>>)

Pad3(n) == IF n < 10 THEN <<"00", ToString(n)>>
           ELSE IF n < 100 THEN <<"0", ToString(n)>>
           ELSE <<ToString(n)>>

\* f"{n:,}"
RECURSIVE Group3(_)
Group3(n) == IF n < 1000 THEN <<ToString(n)>>
             ELSE Group3(n \div 1000) \o <<",">> \o Pad3(n % 1000)

Commas(v) ==
    IF v.t = "null" THEN Raise("TypeError", FmtNoneError)
    ELSE IF v.t = "str" THEN Raise("ValueError", FmtCommaError)
    ELSE Ret(Group3(v.n))

\* f"{x:.2f}" for x held in hundredths
Fixed2f(v) ==
    IF v.t = "null" THEN Raise("TypeError", FmtNoneError)
    ELSE IF v.t = "str" THEN Raise("ValueError", FmtFloatError)
    ELSE LET a == IF v.n < 0 THEN 0 - v.n ELSE v.n
             d == <<ToString(a \div 100), ".", ToString((a % 100) \div 10),
                    ToString(a % 10)>>
         IN  Ret(IF v.n < 0 THEN <<"-">> \o d ELSE d)

\* the first of the results that raised, in evaluation order
FirstRaised(rs) == rs[CHOOSE i \in 1..Len(rs) :
                          rs[i].raised /\ \A j \in 1..(i - 1) : ~rs[j].raised]
AnyRaised(rs) == \E i \in 1..Len(rs) : rs[i].raised

NoSleepData == "No sleep data found for the specified date range."

\* one iteration of the loop of format_sleep_summary; hours holds
\* total_sleep, rem_sleep, deep_sleep, light_sleep in the order computed
SleepBlock(session) ==
    LET day        == Get(session, "day", JStr("Unknown date"))
        efficiency == Get(session, "sleep_efficiency", JNum(0))
    IN  Let(<<Hours1f(Get(session, "total_sleep_duration", JNum(0))),
              Hours1f(Get(session, "rem_sleep_duration", JNum(0))),
              Hours1f(Get(session, "deep_sleep_duration", JNum(0))),
              Hours1f(Get(session, "light_sleep_duration", JNum(0)))>>,
            LAMBDA hours :
              IF AnyRaised(hours) THEN FirstRaised(hours)
              ELSE Ret(<<"\nDate: ", Str(day), "\nTotal Sleep: ">> \o hours[1].val
                       \o <<" hours\nSleep Efficiency: ", Str(efficiency),
                            "%\nSleep Stages:\n  - REM: ">> \o hours[2].val
                       \o <<" hours\n  - Deep: ">> \o hours[3].val
                       \o <<" hours\n  - Light: ">> \o hours[4].val
                       \o <<" hours\n">>))

\* one iteration of the loop of the get_activity_data branch
ActivityBlock(day_data) ==
    LET day             == Get(day_data, "day", JStr("Unknown"))
        active_calories == Get(day_data, "active_calories", JNum(0))
        total_calories  == Get(day_data, "total_calories", JNum(0))
    IN  Let(Commas(Get(day_data, "steps", JNum(0))),
            LAMBDA steps :
              IF steps.raised THEN steps
              ELSE Ret(<<"Date: ", Str(day), "\nSteps: ">> \o steps.val
                       \o <<"\nActive Calories: ", Str(active_calories),
                            "\nTotal Calories: ", Str(total_calories)>>))

\* one iteration of the loop of the get_readiness_data branch
ReadinessBlock(day_data) ==
    LET day   == Get(day_data, "day", JStr("Unknown"))
        score == Get(day_data, "score", JNum(0))
    IN  Let(Fixed2f(Get(day_data, "temperature_deviation", JNum(0))),
            LAMBDA temperature_deviation :
              IF temperature_deviation.raised THEN temperature_deviation
              ELSE Ret(<<"Date: ", Str(day), "\nReadiness Score: ", Str(score),
                         "/100\nTemperature Deviation: ">>
                       \o temperature_deviation.val \o <<"(deg)C">>))

Block(kind, rec) == CASE kind = "sleep"    -> SleepBlock(rec)
                      [] kind = "activity" -> ActivityBlock(rec)
                      [] OTHER             -> ReadinessBlock(rec)

\* the for loop: the list of summaries, or the first exception
Summaries(kind, data) ==
    Let([i \in 1..Len(data) |-> Block(kind, data[i])],
        LAMBDA rs :
          IF AnyRaised(rs) THEN FirstRaised(rs)
          ELSE Ret([i \in 1..Len(data) |-> rs[i].val]))

\* format_sleep_summary(sleep_data); `not sleep_data` holds for None and []
format_sleep_summary(sleep_data) ==
    IF sleep_data.is_none \/ sleep_data.list = <<>>
    THEN Ret(<<NoSleepData>>)
    ELSE Let(Summaries("sleep", sleep_data.list),
             LAMBDA ss : IF ss.raised THEN ss
                         ELSE Ret(Join(<<"\n---\n">>, ss.val)))

\* --------------------------------------------------------------- dispatcher
\* names of handle_list_tools, in order
ToolNames == <<"get_oura_status", "get_sleep_data", "get_activity_data",
               "get_readiness_data">>

\* the check mark, the cross mark and the degree sign of the source are
\* written (ok), (x) and (deg)
StatusOk   == "(ok) Oura connection successful! Your API token is configured correctly."
StatusFail == "(x) Could not connect to Oura. Please check your API token in the .env file."
MissingDates == "(x) Please provide both start_date and end_date in YYYY-MM-DD format."

\* arguments.get(key): None when the key is absent
ArgGet(arguments, key) ==
    IF key \in DOMAIN arguments THEN Tok(arguments[key]) ELSE NoneTok

\* variant of get_client: a new OuraClient on every call
get_client_fresh(global, environ, dotenv, id) ==
    LET env2 == load_dotenv(environ, dotenv)
        made == OuraClient_init(NoneTok, env2, id)
    IN  [res |-> made, global |-> IF made.raised THEN global ELSE made.val,
         environ |-> env2, ctor |-> IF made.raised THEN "failed" ELSE "ok"]

\* variant of get_client: the global is bound before the constructor has
\* checked the token, so a failed construction leaves an instance behind
get_client_early(global, environ, dotenv, id) ==
    IF global.none
    THEN LET env2 == load_dotenv(environ, dotenv)
             made == OuraClient_init(NoneTok, env2, id)
         IN  [res |-> made,
              global |-> IF made.raised
                         THEN [none |-> FALSE, id |-> id, api_token |-> "",
                               headers |-> <<"Bearer ", "">>]
                         ELSE made.val,
              environ |-> env2, ctor |-> IF made.raised THEN "failed" ELSE "ok"]
    ELSE [res |-> Ret(global), global |-> global, environ |-> environ,
          ctor |-> "none"]

\* get_client(): the global after the call, the environment after the
\* constructor's load_dotenv (its export outlives a failed construction), and
\* Ret(client) or the constructor's exception
get_client(global, environ, dotenv, id) ==
    IF global.none
    THEN LET env2 == load_dotenv(environ, dotenv)
             made == OuraClient_init(NoneTok, env2, id)
         IN  [res |-> made, global |-> IF made.raised THEN global ELSE made.val,
              environ |-> env2, ctor |-> IF made.raised THEN "failed" ELSE "ok"]
    ELSE [res |-> Ret(global), global |-> global, environ |-> environ,
          ctor |-> "none"]

Done(text)        == [res |-> Ret(text), requests |-> <<>>]
After(call, res)  == [res |-> res, requests |-> call.requests]

\* the get_sleep_data branch after validation
SleepBranch(client, start_date, end_date, o) ==
    Let(get_sleep_data(client, start_date, end_date, o),
        LAMBDA sleep_data :
          IF sleep_data.res.raised THEN sleep_data
          ELSE Let(format_sleep_summary(sleep_data.res.val),
                   LAMBDA summary :
                     IF summary.raised THEN After(sleep_data, summary)
                     ELSE After(sleep_data,
                                Ret(<<"Sleep data from ", start_date, " to ",
                                      end_date, ":\n\n">> \o summary.val))))

\* the rest of the get_activity_data / get_readiness_data branch once the
\* accessor call `got` has returned or raised
DailyRender(kind, got, start_date, end_date) ==
    LET label == IF kind = "activity" THEN "activity" ELSE "readiness"
        head  == IF kind = "activity" THEN "Activity data from "
                 ELSE "Readiness data from "
    IN  IF got.res.raised THEN got
        ELSE IF got.res.val.is_none \/ got.res.val.list = <<>>
        THEN After(got, Ret(<<"No ", label, " data found from ", start_date,
                              " to ", end_date, ".">>))
        ELSE Let(Summaries(kind, got.res.val.list),
                 LAMBDA ss :
                   IF ss.raised THEN After(got, ss)
                   ELSE After(got, Ret(<<head, start_date, " to ", end_date, ":\n\n">>
                                       \o Join(<<"\n\n---\n\n">>, ss.val))))

\* the get_activity_data / get_readiness_data branches after validation
DailyBranch(kind, client, start_date, end_date, o) ==
    Let(IF kind = "activity"
        THEN get_activity_data(client, start_date, end_date, o)
        ELSE get_readiness_data(client, start_date, end_date, o),
        LAMBDA got : DailyRender(kind, got, start_date, end_date))

\* the get_oura_status branch
StatusBranch(client, o) ==
    Let(test_connection(client, o),
        LAMBDA probe :
          IF probe.res.raised THEN probe
          ELSE After(probe, Ret(IF probe.res.val THEN <<StatusOk>>
                                ELSE <<StatusFail>>)))

\* the body of the try block, given what get_client() gave
TryBody(name, arguments, gc, o) ==
    IF gc.res.raised THEN [res |-> gc.res, requests |-> <<>>]
    ELSE
    LET client     == gc.res.val
        start_date == ArgGet(arguments, "start_date")
        end_date   == ArgGet(arguments, "end_date")
        missing    == ~Truthy(start_date) \/ ~Truthy(end_date)
    IN  IF name = "get_oura_status"
        THEN StatusBranch(client, o)
        ELSE IF name = "get_sleep_data"
        THEN IF missing THEN Done(<<MissingDates>>)
             ELSE SleepBranch(client, start_date.s, end_date.s, o)
        ELSE IF name = "get_activity_data"
        THEN IF missing THEN Done(<<MissingDates>>)
             ELSE DailyBranch("activity", client, start_date.s, end_date.s, o)
        ELSE IF name = "get_readiness_data"
        THEN IF missing THEN Done(<<MissingDates>>)
             ELSE DailyBranch("readiness", client, start_date.s, end_date.s, o)
        ELSE Done(<<"Unknown tool: ", name>>)

TextContent(text) == [type |-> "text", text |-> text]

\* variant of CaughtByHandler: `except ValueError`
CaughtValueErrorOnly(cls) == cls = "ValueError"

\* classes caught by `except Exception`
CaughtByHandler(cls) == TRUE

\* the list handle_call_tool returns and its effects, given what get_client()
\* and the try block gave: `except Exception` turns a raise into a text
Reply(gc, body) ==
    [content  |-> IF ~body.res.raised THEN <<TextContent(body.res.val)>>
                  ELSE IF CaughtByHandler(body.res.cls)
                  THEN <<TextContent(<<"Error: ">> \o body.res.msg)>>
                  ELSE <<>>,
     escaped  |-> body.res.raised /\ ~CaughtByHandler(body.res.cls),
     requests |-> body.requests,
     global   |-> gc.global,
     environ  |-> gc.environ,
     ctor     |-> gc.ctor,
     used     |-> IF gc.res.raised THEN 0 ELSE gc.res.val.id]

\* handle_call_tool(name, arguments) against vendor outcome o
handle_call_tool(name, arguments, global, environ, dotenv, id, o) ==
    Let(get_client(global, environ, dotenv, id),
        LAMBDA gc :
          Let(TryBody(name, IF arguments.none THEN <<>> ELSE arguments.map, gc, o),
              LAMBDA body : Reply(gc, body)))

\* ------------------------------------------------------------ state machine
Names == {ToolNames[i] : i \in 1..Len(ToolNames)} \cup {"get_foo"}

StartValues == {"", "2024-01-01"}
EndValues   == {"", "2024-01-07"}

ArgMaps ==
    {<<>>}
    \cup {[k \in {"start_date"} |-> s] : s \in StartValues}
    \cup {[k \in {"end_date"} |-> e] : e \in EndValues}
    \cup {[k \in {"start_date", "end_date"} |-> IF k = "start_date" THEN s ELSE e] :
              s \in StartValues, e \in EndValues}

\* the arguments parameter: None or a mapping
Arguments == {[none |-> TRUE, map |-> <<>>]}
             \cup {[none |-> FALSE, map |-> m] : m \in ArgMaps}

EndpointOf(name) == CASE name = "get_sleep_data"     -> "sleep"
                      [] name = "get_activity_data"  -> "daily_activity"
                      [] name = "get_readiness_data" -> "daily_readiness"
                      [] OTHER                       -> "personal_info"

NoOutcome == Transport("")

NoCall ==
    [invoked |-> FALSE, name |-> "", arguments |-> [none |-> TRUE, map |-> <<>>],
     outcome |-> NoOutcome, before |-> NoClient,
     ret |-> [content |-> <<>>, escaped |-> FALSE, requests |-> <<>>,
              global |-> NoClient, environ |-> NoneTok, ctor |-> "none", used |-> 0]]

NoEarlier == [set |-> FALSE, ctor |-> "none", content |-> <<>>]

Init ==
    /\ oura_client = NoClient
    /\ os_environ \in TokenValues
    /\ dotenv_file \in TokenValues
    /\ constructions = 0
    /\ last = NoCall
    /\ earlier = NoEarlier

\* one handle_call_tool invocation, from the request to the returned list
Invoke(name, arguments, o) ==
    /\ last' = [invoked |-> TRUE, name |-> name, arguments |-> arguments,
                outcome |-> o, before |-> oura_client,
                ret |-> handle_call_tool(name, arguments, oura_client, os_environ,
                                         dotenv_file, constructions + 1, o)]
    /\ oura_client' = last'.ret.global
    /\ os_environ' = last'.ret.environ
    /\ constructions' = IF last'.ret.ctor = "ok" THEN constructions + 1
                        ELSE constructions
    /\ UNCHANGED dotenv_file

\* the vendor outcome is drawn only when the invocation sends a request
Call ==
    \E name \in Names, arguments \in Arguments :
        LET dry == handle_call_tool(name, arguments, oura_client, os_environ,
                                    dotenv_file, constructions + 1, NoOutcome)
        IN  IF dry.requests = <<>>
            THEN Invoke(name, arguments, NoOutcome)
            ELSE \E o \in Outcomes(EndpointOf(name)) : Invoke(name, arguments, o)

CallTool == Call /\ UNCHANGED earlier

\* the .env file is edited between invocations
EditDotenv ==
    /\ \E t \in TokenValues : t # dotenv_file /\ dotenv_file' = t
    /\ UNCHANGED <<oura_client, os_environ, constructions, last, earlier>>

Next == CallTool \/ EditDotenv

Spec == Init /\ [][Next]_vars

\* ------------------------------------------- repeated identical invocations
\* A second specification follows one invocation (`last`) through a sequence
\* of further invocations while the credential environment stays as it is;
\* `earlier` holds what the invocation returned when it was first made.

\* b is the invocation a again, and the vendor answers as before (an
\* invocation that sent no request saw no answer)
Repeats(a, b) ==
    /\ a.invoked /\ b.invoked
    /\ a.name = b.name /\ a.arguments = b.arguments
    /\ \/ a.outcome = b.outcome
       \/ a.ret.requests = <<>>
       \/ b.ret.requests = <<>>

\* an invocation that is observed; when it repeats the observed one, what
\* that one returned is kept for comparison
Observed ==
    /\ Call
    /\ earlier' = IF Repeats(last, last')
                  THEN [set |-> TRUE, ctor |-> last.ret.ctor,
                        content |-> last.ret.content]
                  ELSE NoEarlier

\* the effects of an invocation on the process, its result not observed
Effects(h) ==
    /\ oura_client' = h.global
    /\ os_environ' = h.environ
    /\ constructions' = IF h.ctor = "ok" THEN constructions + 1 ELSE constructions
    /\ UNCHANGED <<dotenv_file, last, earlier>>

\* any other invocation made between the two; its result is not observed,
\* so the vendor's answers are drawn without the record lists
Between ==
    \E name \in Names, arguments \in Arguments :
        \E dry \in {handle_call_tool(name, arguments, oura_client, os_environ,
                                     dotenv_file, constructions + 1, NoOutcome)} :
            IF dry.requests = <<>>
            THEN Effects(dry)
            ELSE \E o \in Outcomes("personal_info") :
                     \E h \in {handle_call_tool(name, arguments, oura_client,
                                                os_environ, dotenv_file,
                                                constructions + 1, o)} :
                         Effects(h)

\* the credential environment changes: the comparison starts afresh
EditForget ==
    /\ \E t \in TokenValues : t # dotenv_file /\ dotenv_file' = t
    /\ last' = NoCall
    /\ earlier' = NoEarlier
    /\ UNCHANGED <<oura_client, os_environ, constructions>>

NextRepeat == Observed \/ Between \/ EditForget

SpecRepeat == Init /\ [][NextRepeat]_vars

\* ------------------------------------------------------------------ claims
DataTools == {"get_sleep_data", "get_activity_data", "get_readiness_data"}

\* the text of the single returned item (<<>> when there is none)
LastText == IF Len(last.ret.content) = 1 THEN last.ret.content[1].text ELSE <<>>

ArgPresent(key) == /\ ~last.arguments.none
                   /\ key \in DOMAIN last.arguments.map
                   /\ last.arguments.map[key] # ""
BothDates == ArgPresent("start_date") /\ ArgPresent("end_date")

\* the invocation sent a request, so last.outcome is what the vendor answered
Answered  == last.invoked /\ last.ret.requests # <<>>
HttpError == Answered /\ ~last.outcome.transport
             /\ last.outcome.status >= 400 /\ last.outcome.status < 600
IsErrorText == LastText # <<>> /\ LastText[1] = "Error: "

\* C1: every invocation of handle_call_tool, whatever the name, the arguments
\* and the accessor outcome, returns a list of exactly one text item and lets
\* no exception leave the handler.
C1_OneTextItem ==
    last.invoked =>
        /\ ~last.ret.escaped
        /\ Len(last.ret.content) = 1
        /\ last.ret.content[1].type = "text"
        /\ last.ret.content[1].text # <<>>

\* a record with a null duration made the division raise TypeError, and the
\* invocation still returned one "Error: ..." text
C1_Witness ==
    /\ last.invoked /\ last.name = "get_sleep_data" /\ Answered
    /\ last.outcome.status = 200 /\ ~last.ret.escaped
    /\ Len(last.ret.content) = 1
    /\ LastText = <<"Error: ",
                    "unsupported operand type(s) for /: 'NoneType' and 'int'">>

\* C2 (as claimed): a data tool invoked with start_date or end_date missing or
\* empty returns the 'Please provide both start_date and end_date' text and
\* sends no request, in every reachable state.
C2_MissingDatesMessage ==
    (last.invoked /\ last.name \in DataTools /\ ~BothDates) =>
        /\ LastText = <<"(x) Please provide both start_date and end_date in YYYY-MM-DD format.">>
        /\ last.ret.requests = <<>>

\* C3 (as claimed): a name outside the catalog is answered with exactly
\* "Unknown tool: {name}" in every reachable state, also before the accessor
\* has been constructed; a catalog name is never answered with "Unknown tool".
C3_UnknownTool ==
    last.invoked =>
        IF last.name \notin {"get_oura_status", "get_sleep_data",
                              "get_activity_data", "get_readiness_data"}
        THEN /\ Len(last.ret.content) = 1
             /\ LastText = <<"Unknown tool: ", last.name>>
        ELSE ~Contains(LastText, "Unknown tool: ")

\* C4: an invocation sends at most one HTTP request, whatever the vendor
\* answers (401, 429, another error status, a transport failure): nothing is
\* retried within the invocation.
C4_AtMostOneRequest ==
    last.invoked => Len(last.ret.requests) <= 1

\* a 429 was answered and the invocation stopped after that one request
C4_Witness ==
    /\ Answered /\ ~last.outcome.transport /\ last.outcome.status = 429
    /\ last.name \in DataTools
    /\ Len(last.ret.requests) = 1 /\ IsErrorText

\* C5: for a data tool with both dates, 401 gives the authentication-failure
\* text, 429 the rate-limit text, another 4xx/5xx the request-failure text with
\* status and body, a transport failure the network-error text with the cause;
\* each is one "Error: {message}" text and a status error is never reported as
\* a network error.
C5_ErrorMapping ==
    (Answered /\ last.name \in DataTools /\ BothDates) =>
        /\ (HttpError /\ last.outcome.status = 401) =>
               LastText = <<"Error: ",
                            "Authentication failed. Please check your Oura API token.">>
        /\ (HttpError /\ last.outcome.status = 429) =>
               LastText = <<"Error: ", "Rate limit exceeded. Please try again later.">>
        /\ (HttpError /\ last.outcome.status \notin {401, 429}) =>
               LastText = <<"Error: ", "API request failed: ",
                            ToString(last.outcome.status), " - ", last.outcome.text>>
        /\ last.outcome.transport =>
               LastText = <<"Error: ", "Network error: ", last.outcome.cause>>
        /\ HttpError => ~Contains(LastText, "Network error: ")
        /\ (HttpError \/ last.outcome.transport) => Len(last.ret.content) = 1

\* a 401 on a data tool came back as the authentication-failure text
C5_Witness ==
    /\ Answered /\ last.name = "get_readiness_data" /\ BothDates
    /\ HttpError /\ last.outcome.status = 401
    /\ Contains(LastText, "Authentication failed. Please check your Oura API token.")

\* C6: constructing the accessor with no token given and none in the
\* environment fails at construction; no instance with an empty or absent
\* token exists, and no request is sent without a credential.
C6_FailFastToken ==
    /\ ~oura_client.none =>
           /\ oura_client.api_token # ""
           /\ oura_client.headers = <<"Bearer ", oura_client.api_token>>
    /\ \A i \in 1..Len(last.ret.requests) :
           /\ Len(last.ret.requests[i].headers) = 2
           /\ last.ret.requests[i].headers[1] = "Bearer "
           /\ last.ret.requests[i].headers[2] # ""
    /\ (last.invoked /\ last.before.none /\ (os_environ.none \/ os_environ.s = "")) =>
           /\ last.ret.ctor = "failed"
           /\ oura_client.none
           /\ last.ret.requests = <<>>
           /\ LastText = <<"Error: ",
                           "Oura API token not found. Please set OURA_API_TOKEN in your .env file ",
                           "or pass it directly to OuraClient.">>

\* a status check arrived with no token anywhere: construction failed in that
\* invocation and nothing was sent
C6_Witness ==
    /\ last.invoked /\ last.name = "get_oura_status"
    /\ os_environ.none /\ dotenv_file.none
    /\ last.ret.ctor = "failed" /\ oura_client.none
    /\ last.ret.requests = <<>> /\ IsErrorText

\* C7: the accessor singleton is constructed at most once; once set, the global
\* is never reset or replaced and every later invocation uses that instance
\* without constructing; an invocation that finds the global unset attempts
\* construction, and a failed attempt leaves it unset.
\* (a step that changes `last` is an invocation: EditDotenv leaves it alone)
C7_Step ==
    /\ constructions' <= 1
    /\ ~oura_client.none => oura_client' = oura_client
    /\ last' # last =>
           IF oura_client.none
           THEN /\ last'.ret.ctor \in {"ok", "failed"}
                /\ last'.ret.ctor = "failed" =>
                       oura_client'.none /\ constructions' = constructions
                /\ last'.ret.ctor = "ok" =>
                       /\ ~oura_client'.none
                       /\ last'.ret.used = oura_client'.id
                       /\ constructions' = constructions + 1
           ELSE /\ last'.ret.ctor = "none"
                /\ last'.ret.used = oura_client.id
                /\ constructions' = constructions

C7_Singleton == [][C7_Step]_vars

\* an invocation found the singleton already constructed and used it
C7_Witness ==
    /\ last.invoked /\ ~last.before.none
    /\ last.ret.ctor = "none" /\ constructions = 1
    /\ last.ret.used = oura_client.id /\ oura_client = last.before

\* C8: test_connection never raises, is true on a 2xx response and false on
\* any failure; so get_oura_status, once the accessor exists, returns the
\* success text when the probe is true, the failure text when it is false, and
\* never an "Error: ..." text.
C8_StatusTexts ==
    (last.invoked /\ last.name = "get_oura_status" /\ ~oura_client.none) =>
        /\ Len(last.ret.content) = 1
        /\ Len(last.ret.requests) = 1
        /\ LastText \in
             {<<"(ok) Oura connection successful! Your API token is configured correctly.">>,
              <<"(x) Could not connect to Oura. Please check your API token in the .env file.">>}
        /\ (~last.outcome.transport /\ last.outcome.status >= 200
                /\ last.outcome.status < 300) =>
               LastText = <<"(ok) Oura connection successful! Your API token is configured correctly.">>
        /\ (last.outcome.transport \/ HttpError) =>
               LastText = <<"(x) Could not connect to Oura. Please check your API token in the .env file.">>
        /\ ~IsErrorText

\* the probe met a transport failure and the status tool answered with the
\* failure text
C8_Witness ==
    /\ last.invoked /\ last.name = "get_oura_status" /\ ~oura_client.none
    /\ Answered /\ last.outcome.transport
    /\ LastText = <<"(x) Could not connect to Oura. Please check your API token in the .env file.">>

\* the fetch of the last invocation returned an empty sequence
EmptyFetch ==
    /\ Answered /\ last.name \in DataTools /\ BothDates
    /\ ~last.outcome.transport /\ last.outcome.status = 200
    /\ last.outcome.body.kind = "object"
    /\ \/ ~last.outcome.body.has_data
       \/ ~last.outcome.body.data_null /\ last.outcome.body.data = <<>>

NoDataMessage ==
    CASE last.name = "get_sleep_data" ->
             Contains(LastText, "No sleep data found for the specified date range.")
      [] last.name = "get_activity_data" ->
             \E i \in 1..Len(LastText) :
                 SubSeq(LastText, i, i + 2) = <<"No ", "activity", " data found from ">>
      [] OTHER ->
             \E i \in 1..Len(LastText) :
                 SubSeq(LastText, i, i + 2) = <<"No ", "readiness", " data found from ">>

\* C9: for a data tool with both dates, an empty fetch result (also when the
\* response has no `data` key) gives one non-empty text that carries the "no
\* data found" message and the requested start and end date, and renders no
\* per-record block.
C9_NoDataFound ==
    EmptyFetch =>
        /\ Len(last.ret.content) = 1
        /\ LastText # <<>>
        /\ ~IsErrorText
        /\ NoDataMessage
        /\ \E i \in 1..Len(LastText) :
               SubSeq(LastText, i, i + 2) =
                   <<last.arguments.map["start_date"], " to ",
                     last.arguments.map["end_date"]>>
        /\ ~Contains(LastText, "Date: ") /\ ~Contains(LastText, "\nDate: ")

\* the vendor answered 200 with an object that has no `data` key
C9_Witness ==
    /\ EmptyFetch /\ last.name = "get_sleep_data" /\ ~last.outcome.body.has_data
    /\ Contains(LastText, "No sleep data found for the specified date range.")
    /\ Contains(LastText, "2024-01-01") /\ Contains(LastText, "2024-01-07")

\* the records rendered by the last invocation (no field holds a null)
Rendered ==
    IF /\ Answered /\ last.name \in DataTools /\ BothDates
       /\ ~last.outcome.transport /\ last.outcome.status = 200
       /\ last.outcome.body.kind = "object" /\ last.outcome.body.has_data
       /\ ~last.outcome.body.data_null
       /\ \A i \in 1..Len(last.outcome.body.data) :
              \A k \in DOMAIN last.outcome.body.data[i] :
                  last.outcome.body.data[i][k].t # "null"
    THEN last.outcome.body.data ELSE <<>>

\* positions of the date labels of the blocks, in order of appearance
DateLabels == {i \in 1..Len(LastText) : LastText[i] \in {"Date: ", "\nDate: "}}
NthLabel(n) == CHOOSE i \in DateLabels : Cardinality({j \in DateLabels : j <= i}) = n

\* the block of a record without any field, as the claim has it
ZeroBlock ==
    CASE last.name = "get_sleep_data" ->
             <<"\nDate: ", "Unknown date", "\nTotal Sleep: ", "0", ".", "0",
               " hours\nSleep Efficiency: ", "0", "%\nSleep Stages:\n  - REM: ",
               "0", ".", "0", " hours\n  - Deep: ", "0", ".", "0",
               " hours\n  - Light: ", "0", ".", "0", " hours\n">>
      [] last.name = "get_activity_data" ->
             <<"Date: ", "Unknown date", "\nSteps: ", "0", "\nActive Calories: ",
               "0", "\nTotal Calories: ", "0">>
      [] OTHER ->
             <<"Date: ", "Unknown date", "\nReadiness Score: ", "0",
               "/100\nTemperature Deviation: ", "0", ".", "0", "0", "(deg)C">>

\* C10 (as claimed): in every record rendered by a data tool a missing numeric
\* field is rendered as zero and a missing date as "Unknown date", and absent
\* fields never make the invocation return an "Error: ..." text.
C10_MissingFieldDefaults ==
    Rendered # <<>> =>
        /\ ~IsErrorText
        /\ Cardinality(DateLabels) = Len(Rendered)
        /\ \A n \in 1..Len(Rendered) :
               /\ "day" \notin DOMAIN Rendered[n] =>
                      LastText[NthLabel(n) + 1] = "Unknown date"
               /\ DOMAIN Rendered[n] = {} =>
                      SubSeq(LastText, NthLabel(n),
                             NthLabel(n) + Len(ZeroBlock) - 1) = ZeroBlock

\* C11: two identical invocations made at any two points of a sequence of
\* invocations return identical text, also when the first constructed the
\* accessor and the later one reused it, as long as the vendor's responses and
\* the credential environment do not change between them.
C11_Idempotent ==
    earlier.set =>
        /\ Len(last.ret.content) = 1 /\ Len(earlier.content) = 1
        /\ last.ret.content[1].text = earlier.content[1].text

\* a data tool was answered 200 in the invocation that constructed the
\* accessor and again in one that reused it, with the same text
C11_Witness ==
    /\ earlier.set /\ earlier.ctor = "ok"
    /\ last.ret.ctor = "none" /\ ~last.before.none
    /\ last.name = "get_sleep_data" /\ Answered /\ last.outcome.status = 200
    /\ last.outcome.body.data # <<>>
    /\ LastText = earlier.content[1].text

====
